---- MODULE Spec2Model ----
(***************************************************************************)
(* Model of cerial (src/src/serial.ts): sizeof, serialize and Deserialize  *)
(* over a class's __serial__ map.                                          *)
(*                                                                         *)
(* JavaScript values are records with a field t holding their typeof.     *)
(*   a string used as a serial type     [t |-> "string", name |-> "Int8"]  *)
(*   a class (constructor function)     [t |-> "function", name |-> "Test"]*)
(*   an instance of a class             [t |-> "object", name |-> "Test",  *)
(*                                       props |-> [key |-> value]]        *)
(*   a SerialDef (a plain object)       [t |-> "object", name |-> "Object",*)
(*                                       type |-> ..., length |-> ...]     *)
(*   a number / a bigint                [t |-> "number", d |-> digits]     *)
(*   a string value                     [t |-> "string", d |-> char codes] *)
(*   an array                           [t |-> "object", name |-> "Array", *)
(*                                       d |-> <<elements>>]               *)
(* An integral number or bigint is held exactly as the NumBytes base-256   *)
(* digits of its two's complement, least significant first, so that every  *)
(* value of the 8-byte kinds is representable.  NaN has no digits; any     *)
(* other non-integral float is held as the bytes of its IEEE-754 pattern.  *)
(***************************************************************************)
EXTENDS Integers, Sequences, FiniteSets, TLC

VARIABLES
    schema,        \* Test.__serial__: the ordered entries <<key, def>> of the class under test
    littleEndian,  \* Test.__serial__.littleEndian, set by serialClass
    this,          \* the properties of the instance of Test the caller holds
    out,           \* what the last this.serialize() returned
    reused,        \* how many times the instance was handed to Deserialize
    call           \* the last call made and its outcome

vars == <<schema, littleEndian, this, out, reused, call>>

----------------------------------------------------------------------------
(* Types *)

\* `length?: number` left undefined
NoLength == -1

Str(s) == [t |-> "string", name |-> s]
Class(c) == [t |-> "function", name |-> c]
Obj(c, props) == [t |-> "object", name |-> c, props |-> props]
Def(type, length) == [t |-> "object", name |-> "Object", type |-> type, length |-> length]

serialPrimitives ==
    <<"Int8", "Uint8", "Int16", "Uint16", "Int32", "Uint32", "BigInt64", "BigUint64", "Float32", "Float64">>

Range(s) == {s[i] : i \in DOMAIN s}

serialPrimitiveValue(serialType) ==
    IF serialType = Str("BigInt64") \/ serialType = Str("BigUint64") THEN "bigint" ELSE "number"

isSerialPrimitive(arg) == arg.t = "string" /\ "name" \in DOMAIN arg /\ arg.name \in Range(serialPrimitives)

\* __serial__ of Inner, a second decorated class with two numeric members,
\* for members whose type is a class or an instance of one
InnerSerial == << <<"x", Def(Str("Uint8"), NoLength)>>, <<"y", Def(Str("Int16"), NoLength)>> >>

\* The static side of every decorated class: __serial__ and the options
\* serialClass copied onto it.
statics ==
    [Test  |-> [serial |-> schema, littleEndian |-> littleEndian],
     Inner |-> [serial |-> InnerSerial, littleEndian |-> TRUE]]

\* arg.constructor: Function for a class, the class for an object
constructorOf(arg) == IF arg.t = "function" THEN Class("Function") ELSE Class(arg.name)

RECURSIVE isSerialType(_), isSerialDef(_), isSerialMap(_), isSerializeable(_), isSerializeableStatic(_)

isSerializeableStatic(arg) ==
    IF arg.t # "object" /\ arg.t # "function"
    THEN FALSE
    ELSE /\ arg.t = "function"
         /\ arg.name \in DOMAIN statics
         /\ isSerialMap(statics[arg.name].serial)

isSerializeable(arg) ==
    IF arg.t # "object" /\ arg.t # "function"
    THEN FALSE
    ELSE isSerializeableStatic(constructorOf(arg))

isSerialType(arg) == isSerialPrimitive(arg) \/ isSerializeable(arg) \/ arg = Str("string")

isSerialDef(arg) ==
    IF arg.t # "object"
    THEN FALSE
    ELSE "type" \in DOMAIN arg /\ isSerialType(arg.type)

isSerialMap(arg) == \A i \in DOMAIN arg : isSerialDef(arg[i][2])

----------------------------------------------------------------------------
(* sizeof *)

Returned(v) == [err |-> "", value |-> v]
Thrown(e) == [err |-> e]

primitiveSize(type) ==
    CASE type.name \in {"Int8", "Uint8"} -> 1
      [] type.name \in {"Int16", "Uint16"} -> 2
      [] type.name \in {"Int32", "Uint32", "Float32"} -> 4
      [] type.name \in {"BigInt64", "BigUint64", "Float64"} -> 8

RECURSIVE sizeof(_), sizeofLoop(_, _, _)

sizeofLoop(serialMap, i, size) ==
    IF i > Len(serialMap)
    THEN Returned(size)
    ELSE LET type == serialMap[i][2].type
             length == serialMap[i][2].length
             _size == IF isSerialPrimitive(type)
                      THEN Returned(primitiveSize(type))
                      ELSE IF isSerializeable(type) \/ isSerializeableStatic(type)
                      THEN sizeof(type)
                      ELSE IF type = Str("string")
                      THEN Returned(1)
                      ELSE Thrown("TypeError")
         IN IF _size.err # ""
            THEN _size
            ELSE sizeofLoop(serialMap, i + 1,
                     size + _size.value * (IF length = NoLength THEN 1 ELSE length))

sizeof(val) ==
    LET serialMap == IF isSerializeable(val)
                     THEN statics[constructorOf(val).name].serial
                     ELSE IF isSerializeableStatic(val)
                     THEN statics[val.name].serial
                     ELSE << <<"", IF isSerialDef(val) THEN val ELSE Def(val, NoLength)>> >>
    IN sizeofLoop(serialMap, 1, 0)

----------------------------------------------------------------------------
(* Numbers, bigints and their bytes *)

\* digits kept for a number or bigint: one more byte than the widest kind,
\* so that BigUint64 values and negative BigInt64 values stay distinct
NumBytes == 9

Pow2(n) == 2 ^ n

\* the digits of an integer i, for -2^31 <= i < 2^31
IntDigits(i) ==
    [k \in 1..NumBytes |-> IF k <= 4 THEN (i \div (256 ^ (k - 1))) % 256
                           ELSE IF i < 0 THEN 255 ELSE 0]

Number(i) == [t |-> "number", d |-> IntDigits(i)]
BigInt(i) == [t |-> "bigint", d |-> IntDigits(i)]
NaN == [t |-> "number", d |-> <<>>]
Undefined == [t |-> "undefined"]
Boolean(b) == [t |-> "boolean", b |-> b]
String(codes) == [t |-> "string", d |-> codes]
Array(elements) == [t |-> "object", name |-> "Array", d |-> elements]
\* a typed array over bytes byteOffset+1 .. byteOffset+byteLength of buffer
Subarray(buffer, byteOffset, byteLength) ==
    [t |-> "object", name |-> "Uint8Array", buffer |-> buffer, byteOffset |-> byteOffset,
     d |-> SubSeq(buffer, byteOffset + 1, byteOffset + byteLength)]
\* new Uint8Array(n) once filled: a view of the whole of its own buffer
Uint8Array(bytes) == Subarray(bytes, 0, Len(bytes))
ArrayBuffer(bytes) == [t |-> "object", name |-> "ArrayBuffer", d |-> bytes]

Reverse(s) == [k \in 1..Len(s) |-> s[Len(s) + 1 - k]]
Zeros(n) == [k \in 1..n |-> 0]
IsIntegral(v) == Len(v.d) = NumBytes

\* the integer held by digits d, when bytes 5.. only repeat the sign of byte 4
FitsInt32(d) == \A k \in 5..NumBytes : d[k] = (IF d[4] >= 128 THEN 255 ELSE 0)
Int32Of(d) == d[1] + 256 * d[2] + 65536 * d[3] + 16777216 * (IF d[4] >= 128 THEN d[4] - 256 ELSE d[4])

Abs(n) == IF n < 0 THEN -n ELSE n
\* exponent of a non-zero integer of magnitude below 2^21
Exponent(a) == CHOOSE e \in 0..20 : Pow2(e) <= a /\ a < Pow2(e + 1)

\* ToNumber(value); a bigint throws, a typed array goes through its toString
ToNumber(value) ==
    CASE value.t = "number" -> Returned(value)
      [] value.t = "bigint" -> Thrown("TypeError")
      [] value.t = "undefined" -> Returned(NaN)
      [] value.t = "boolean" -> Returned(Number(IF value.b THEN 1 ELSE 0))
      [] value.t = "object" /\ value.name = "Uint8Array" ->
            Returned(IF Len(value.d) = 0 THEN Number(0)
                     ELSE IF Len(value.d) = 1 THEN Number(value.d[1])
                     ELSE NaN)
      [] OTHER -> Returned(NaN)

\* ToBigInt(value): only a bigint (or a boolean) converts
ToBigInt(value) ==
    CASE value.t = "bigint" -> Returned(value)
      [] value.t = "boolean" -> Returned(BigInt(IF value.b THEN 1 ELSE 0))
      [] OTHER -> Thrown("TypeError")

\* the big-endian IEEE-754 bytes of a number, for a integral number of
\* magnitude below 2^21, NaN (the canonical quiet NaN), or a float held as
\* its pattern of the same width
FloatBytes(width, v) ==
    IF v.d = <<>>
    THEN IF width = 4 THEN <<127, 192, 0, 0>> ELSE <<127, 248, 0, 0, 0, 0, 0, 0>>
    ELSE IF ~IsIntegral(v)
    THEN CASE Len(v.d) = width -> v.d
    ELSE LET n == Int32Of(v.d)
             s == IF n < 0 THEN 128 ELSE 0
             e == Exponent(Abs(n))
         IN CASE FitsInt32(v.d) /\ n = 0 -> Zeros(width)
              [] FitsInt32(v.d) /\ n # 0 /\ Abs(n) < Pow2(21) /\ width = 4 ->
                    LET E == e + 127
                        m == (Abs(n) - Pow2(e)) * Pow2(23 - e)
                    IN <<s + E \div 2, (E % 2) * 128 + m \div 65536, (m \div 256) % 256, m % 256>>
              [] FitsInt32(v.d) /\ n # 0 /\ Abs(n) < Pow2(21) /\ width = 8 ->
                    LET E == e + 1023
                        m == (Abs(n) - Pow2(e)) * Pow2(20 - e)
                    IN <<s + E \div 16, (E % 16) * 16 + m \div 65536, (m \div 256) % 256, m % 256,
                         0, 0, 0, 0>>

\* the number a big-endian IEEE-754 pattern denotes
FloatOf(width, b) ==
    LET neg == b[1] >= 128
        E == IF width = 4 THEN (b[1] % 128) * 2 + b[2] \div 128
                          ELSE (b[1] % 128) * 16 + b[2] \div 16
        m == IF width = 4 THEN (b[2] % 128) * 65536 + b[3] * 256 + b[4]
                          ELSE (b[2] % 16) * 65536 + b[3] * 256 + b[4]
        rest == \A k \in 5..width : b[k] = 0
        bias == IF width = 4 THEN 127 ELSE 1023
        frac == IF width = 4 THEN 23 ELSE 20
        e == E - bias
    IN IF E = 2 * bias + 1 /\ (m # 0 \/ ~rest)
       THEN NaN
       ELSE IF E = 0 /\ m = 0 /\ rest /\ ~neg
       THEN Number(0)
       ELSE IF e \in 0..20 /\ rest /\ m % Pow2(frac - e) = 0
       THEN Number((IF neg THEN -1 ELSE 1) * ((Pow2(frac) + m) \div Pow2(frac - e)))
       ELSE [t |-> "number", d |-> b]

isFloat(type) == type = Str("Float32") \/ type = Str("Float64")
isBig(type) == type = Str("BigInt64") \/ type = Str("BigUint64")
isSigned(type) == type.name \in {"Int8", "Int16", "Int32", "BigInt64"}

\* NumericToRawBytes: the element's bytes in the order asked for.  An
\* integer kind keeps the value modulo 2^(8 * width); NaN becomes 0.
NumericToRawBytes(type, v, isLittleEndian) ==
    LET width == primitiveSize(type)
        be == IF isFloat(type)
              THEN FloatBytes(width, v)
              ELSE IF v.d = <<>>
              THEN Zeros(width)
              ELSE CASE IsIntegral(v) -> [k \in 1..width |-> v.d[width + 1 - k]]
    IN IF isLittleEndian THEN Reverse(be) ELSE be

\* RawBytesToNumeric: the value of the element's bytes read in the order asked for
RawBytesToNumeric(type, raw, isLittleEndian) ==
    LET width == primitiveSize(type)
        be == IF isLittleEndian THEN Reverse(raw) ELSE raw
        ext == IF isSigned(type) /\ be[1] >= 128 THEN 255 ELSE 0
        digits == [k \in 1..NumBytes |-> IF k <= width THEN be[width + 1 - k] ELSE ext]
    IN IF isFloat(type) THEN FloatOf(width, be)
       ELSE [t |-> serialPrimitiveValue(type), d |-> digits]

\* DataView.prototype.set<type>(byteOffset, value, littleEndian) on the bytes
\* the view covers: the value is converted first, then the range is checked
setValue(bytes, byteOffset, type, value, isLittleEndian) ==
    LET conv == IF isBig(type) THEN ToBigInt(value) ELSE ToNumber(value)
        width == primitiveSize(type)
    IN IF conv.err # ""
       THEN conv
       ELSE IF byteOffset + width > Len(bytes)
       THEN Thrown("RangeError")
       ELSE LET raw == NumericToRawBytes(type, conv.value, isLittleEndian)
            IN Returned([k \in 1..Len(bytes) |->
                            IF k > byteOffset /\ k <= byteOffset + width
                            THEN raw[k - byteOffset] ELSE bytes[k]])

\* DataView.prototype.get<type>(byteOffset, littleEndian)
getValue(bytes, byteOffset, type, isLittleEndian) ==
    LET width == primitiveSize(type)
    IN IF byteOffset + width > Len(bytes)
       THEN Thrown("RangeError")
       ELSE Returned(RawBytesToNumeric(type, SubSeq(bytes, byteOffset + 1, byteOffset + width),
                                       isLittleEndian))

\* ToUint8 of a number, as a typed array stores it
ToUint8(v) == IF v.d = <<>> THEN 0 ELSE CASE IsIntegral(v) -> v.d[1]

RECURSIVE typedArraySetLoop(_, _, _, _)
typedArraySetLoop(bytes, array, offset, i) ==
    IF i > Len(array)
    THEN Returned(bytes)
    ELSE LET conv == ToNumber(array[i])
         IN IF conv.err # ""
            THEN conv
            ELSE typedArraySetLoop([bytes EXCEPT ![offset + i] = ToUint8(conv.value)],
                                   array, offset, i + 1)

\* Uint8Array.prototype.set(array, offset): the range is checked first, then
\* each element is converted and stored in one byte
typedArraySet(bytes, array, offset) ==
    IF Len(array) + offset > Len(bytes)
    THEN Thrown("RangeError")
    ELSE typedArraySetLoop(bytes, array, offset, 1)

\* Array.prototype.slice(0, end) and ArrayBuffer.prototype.slice(begin, end)
Slice(s, begin, end) ==
    LET b == IF begin > Len(s) THEN Len(s) ELSE begin
        e == IF end > Len(s) THEN Len(s) ELSE end
    IN IF e <= b THEN <<>> ELSE SubSeq(s, b + 1, e)

----------------------------------------------------------------------------
(* serialize *)

ThrownAt(e, partial) == [err |-> e, partial |-> partial]

Truthy(length) == length # NoLength /\ length # 0

\* this[key]; a property never assigned reads as undefined
Get(props, key) == IF key \in DOMAIN props THEN props[key] ELSE Undefined
\* this[key] = v
Put(props, key, v) == [k \in DOMAIN props \cup {key} |-> IF k = key THEN v ELSE props[k]]
\* an object no property of which was assigned yet
NoProps == [k \in {} |-> Undefined]

RECURSIVE serialize(_), serializeLoop(_, _, _, _, _), flatMapLoop(_, _, _)

\* the callback of value.flatMap(...): what one element contributes
elementData(el) ==
    CASE el.t = "string" -> Returned(IF Len(el.d) = 0 THEN NaN ELSE Number(el.d[1]))
      [] el.t \in {"bigint", "number"} -> Returned(el)
      [] el.t = "boolean" -> Returned(Number(IF el.b THEN 1 ELSE 0))
      [] el.t = "undefined" -> Returned(Number(0))
      [] el.t = "object" ->
            IF ~isSerializeable(el)
            THEN Thrown("TypeError")
            ELSE LET r == serialize(el)
                 IN IF r.err # "" THEN Thrown(r.err) ELSE Returned(r.value)
      [] OTHER -> Thrown("TypeError")

\* value.flatMap(...): a typed array returned by the callback is kept as one element
flatMapLoop(elements, i, acc) ==
    IF i > Len(elements)
    THEN Returned(acc)
    ELSE LET r == elementData(elements[i])
         IN IF r.err # "" THEN r ELSE flatMapLoop(elements, i + 1, Append(acc, r.value))

\* for (let i = 0; i < length; i++) view['set' + type](offset + i * (size / length), arrayData[i])
RECURSIVE setFloatLoop(_, _, _, _, _, _, _)
setFloatLoop(bytes, type, arrayData, offset, stride, length, i) ==
    IF i >= length
    THEN Returned(bytes)
    ELSE LET r == setValue(bytes, offset + i * stride, type,
                           IF i + 1 <= Len(arrayData) THEN arrayData[i + 1] ELSE Undefined,
                           FALSE)
         IN IF r.err # "" THEN r ELSE setFloatLoop(r.value, type, arrayData, offset, stride, length, i + 1)

\* [...value] of a string: one string per character
Spread(value) == [k \in 1..Len(value.d) |-> String(<<value.d[k]>>)]

\* One turn of the loop of serialize: the checks, then the write at offset.
serializeMember(self, def, key, data, offset) ==
    LET size == sizeof(def)
        type == def.type
        length == def.length
        value == Get(self.props, key)
        spread == IF value.t = "string" THEN Spread(value)
                  ELSE IF "d" \in DOMAIN value THEN value.d ELSE <<>>
    IN IF size.err # ""
       THEN size
       ELSE IF length = 0
       THEN Thrown("Error")
       ELSE IF ~isSerialType(type)
       THEN Thrown("TypeError")
       ELSE IF type = Str("string") /\ value.t # "string"
       THEN Thrown("TypeError")
       ELSE IF Truthy(length) /\ ~(value.t = "object" /\ value.name = "Array") /\ type # Str("string")
       THEN Thrown("TypeError")
       ELSE IF ~Truthy(length) /\ isSerialPrimitive(type) /\ value.t # serialPrimitiveValue(type)
       THEN Thrown("TypeError")
       ELSE IF Truthy(length)
       THEN LET mapped == flatMapLoop(spread, 1, <<>>)
            IN IF mapped.err # ""
               THEN mapped
               ELSE LET arrayData == Slice(mapped.value, 0, size.value)
                    IN IF type = Str("Float32") \/ type = Str("Float64")
                       THEN setFloatLoop(data, type, arrayData, offset, size.value \div length, length, 0)
                       ELSE typedArraySet(data, arrayData, offset)
       ELSE IF isSerialPrimitive(type)
       THEN setValue(data, offset, type, value, FALSE)
       ELSE IF isSerializeableStatic(type)
       THEN LET serialized == serialize(value)
            IN IF serialized.err # ""
               THEN Thrown(serialized.err)
               ELSE typedArraySet(data, [k \in 1..Len(serialized.value.d) |-> Number(serialized.value.d[k])],
                                  offset)
       ELSE Thrown("TypeError")

serializeLoop(self, serialMap, i, data, offset) ==
    IF i > Len(serialMap)
    THEN Returned(Uint8Array(data))
    ELSE LET key == serialMap[i][1]
             def == serialMap[i][2]
             r == serializeMember(self, def, key, data, offset)
         IN IF r.err # ""
            THEN ThrownAt(r.err, data)
            ELSE serializeLoop(self, serialMap, i + 1, r.value, offset + sizeof(def).value)

\* this.serialize(): the Uint8Array returned, or the error thrown and the
\* bytes written before it
serialize(self) ==
    LET size == sizeof(self)
    IN IF size.err # ""
       THEN ThrownAt(size.err, <<>>)
       ELSE serializeLoop(self, statics[constructorOf(self).name].serial, 1, Zeros(size.value), 0)

----------------------------------------------------------------------------
(* Deserialize *)

\* ToBoolean, for `instance[key] ||= []`
ToBoolean(v) ==
    CASE v.t = "undefined" -> FALSE
      [] v.t = "boolean" -> v.b
      [] v.t = "string" -> v.d # <<>>
      [] v.t \in {"number", "bigint"} -> v.d # <<>> /\ (~IsIntegral(v) \/ v.d # Zeros(NumBytes))
      [] OTHER -> TRUE

\* for (let i = 0; i < length; i++) instance[key][i] = view['get' + type](offset + i * (size / length))
\* on the array (or other value) `target` that instance[key] holds: the read
\* comes first, then the store, which a primitive refuses in strict code
RECURSIVE getLoop(_, _, _, _, _, _, _)
getLoop(bytes, type, target, offset, stride, length, i) ==
    IF i >= length
    THEN Returned(target)
    ELSE LET r == getValue(bytes, offset + i * stride, type, FALSE)
         IN IF r.err # ""
            THEN ThrownAt(r.err, target)
            ELSE IF target.t # "object"
            THEN ThrownAt("TypeError", target)
            ELSE CASE target.name = "Array" ->
                    LET n == IF i + 1 > Len(target.d) THEN i + 1 ELSE Len(target.d)
                        stored == [k \in 1..n |-> IF k = i + 1 THEN r.value
                                                  ELSE IF k <= Len(target.d) THEN target.d[k]
                                                  ELSE Undefined]
                    IN getLoop(bytes, type, Array(stored), offset, stride, length, i + 1)

\* charArray.reduce((index, char, i) => (char == 0 ? index : i), 0)
RECURSIVE reduceLastChar(_, _, _)
reduceLastChar(charArray, i, index) ==
    IF i > Len(charArray)
    THEN index
    ELSE reduceLastChar(charArray, i + 1, IF charArray[i] = 0 THEN index ELSE i - 1)

\* decodeString stopping at the first zero byte, as a C string would
decodeStringFirstNul(charArray) ==
    String(SubSeq(charArray, 1,
                  IF \E k \in 1..Len(charArray) : charArray[k] = 0
                  THEN (CHOOSE k \in 1..Len(charArray) :
                            charArray[k] = 0 /\ \A j \in 1..(k - 1) : charArray[j] # 0) - 1
                  ELSE Len(charArray)))

\* the string decoded from the bytes of a text member
decodeString(charArray) ==
    LET lastChar == reduceLastChar(charArray, 1, 0) + 1
    IN String(Slice(charArray, 0, IF lastChar # 0 THEN lastChar ELSE Len(charArray)))

RECURSIVE Deserialize(_, _, _), deserializeLoop(_, _, _, _, _)

\* One turn of the loop of Deserialize: the instance's properties after it,
\* or the error thrown and the properties as the throw leaves them.
deserializeMember(def, key, buffer, instance, offset) ==
    LET size == sizeof(def)
        type == def.type
        length == def.length
        arraybuffer == Slice(buffer, offset, offset + size.value)
    IN IF size.err # ""
       THEN ThrownAt(size.err, instance)
       ELSE IF length = 0
       THEN ThrownAt("Error", instance)
       ELSE IF ~isSerialType(type)
       THEN ThrownAt("TypeError", instance)
       ELSE IF Truthy(length)
       THEN IF isSerialPrimitive(type)
            THEN LET held == IF ToBoolean(Get(instance, key)) THEN Get(instance, key) ELSE Array(<<>>)
                     r == getLoop(buffer, type, held, offset, size.value \div length, length, 0)
                 IN IF r.err # ""
                    THEN ThrownAt(r.err, Put(instance, key, r.partial))
                    ELSE Returned(Put(instance, key, r.value))
            ELSE IF type = Str("string")
            THEN Returned(Put(instance, key, decodeString(arraybuffer)))
            ELSE Returned(instance)
       ELSE IF isSerialPrimitive(type)
       THEN LET r == getValue(buffer, offset, type, FALSE)
            IN IF r.err # ""
               THEN ThrownAt(r.err, instance)
               ELSE Returned(Put(instance, key, r.value))
       ELSE IF isSerializeableStatic(type)
       THEN LET r == Deserialize(type, ArrayBuffer(arraybuffer), NoProps)
            IN IF r.err # ""
               THEN ThrownAt(r.err, instance)
               ELSE Returned(Put(instance, key, Obj(type.name, r.value)))
       ELSE ThrownAt("TypeError", instance)

deserializeLoop(serialMap, i, buffer, instance, offset) ==
    IF i > Len(serialMap)
    THEN Returned(instance)
    ELSE LET r == deserializeMember(serialMap[i][2], serialMap[i][1], buffer, instance, offset)
         IN IF r.err # ""
            THEN r
            ELSE deserializeLoop(serialMap, i + 1, buffer, r.value, offset + sizeof(serialMap[i][2]).value)

\* cls.Deserialize(data, instance): the properties of the instance returned,
\* or the error thrown and the properties of `instance` at the throw
Deserialize(cls, data, instance) ==
    LET buffer == IF "buffer" \in DOMAIN data THEN data.buffer ELSE data.d
    IN deserializeLoop(statics[cls.name].serial, 1, buffer, instance, 0)

----------------------------------------------------------------------------
(* The classes, instances and buffers explored *)

MaxMembers == 2
MaxLength == 2
MaxText == 3
MaxPad == 1
MaxCut == 1
MaxReuse == 1
MaxFile == 6

KeyAt(i) == <<"a", "b", "c", "d">>[i]

\* the classes whose members are drawn from the defs of `family`
SchemasOver(family) ==
    UNION {{[i \in 1..n |-> <<KeyAt(i), defs[i]>>] : defs \in [1..n -> family]} : n \in 1..MaxMembers}

SeqsUpTo(S, n) == UNION {[1..k -> S] : k \in 0..n}

\* two values of each numeric kind: one whose bytes all differ, and the
\* kind's least value (signed) or greatest value (unsigned)
SampleDigits(type) ==
    LET width == primitiveSize(type)
    IN {[k \in 1..NumBytes |-> IF k <= width THEN k ELSE 0],
        IF isSigned(type)
        THEN [k \in 1..NumBytes |-> IF k < width THEN 0 ELSE IF k = width THEN 128 ELSE 255]
        ELSE [k \in 1..NumBytes |-> IF k <= width THEN 255 ELSE 0]}

SampleNumbers(type) ==
    IF isFloat(type)
    THEN {Number(3), Number(-2)}
    ELSE {[t |-> serialPrimitiveValue(type), d |-> d] : d \in SampleDigits(type)}

Chars == {0, 104}

InnerInstance == Obj("Inner", [x |-> Number(7), y |-> Number(-2)])

\* the values a caller gives a member that match its declared kind; a
\* sequence may be shorter than the declared length
ValuesFor(def) ==
    IF def.length = NoLength
    THEN IF isSerialPrimitive(def.type) THEN SampleNumbers(def.type)
         ELSE IF def.type.t = "string" THEN {String(<<104>>)}
         ELSE {InnerInstance}
    ELSE IF def.type = Str("string")
    THEN {String(c) : c \in SeqsUpTo(Chars, def.length)}
    ELSE IF isSerialPrimitive(def.type)
    THEN {Array(e) : e \in SeqsUpTo(SampleNumbers(def.type), def.length)}
    ELSE {Array(<<InnerInstance>>)}

Max(a, b) == IF a > b THEN a ELSE b

\* what a caller can hand to Deserialize once serialize returned `u`: the
\* Uint8Array itself, its ArrayBuffer, the same bytes as a view at a non-zero
\* byteOffset of a larger (pooled) buffer, and the first bytes only
DataFrom(u) ==
    {u, ArrayBuffer(u.d)}
      \cup {Subarray([k \in 1..pad |-> 170] \o u.d, pad, Len(u.d)) : pad \in 1..MaxPad}
      \cup {ArrayBuffer(SubSeq(u.d, 1, n)) : n \in Max(0, Len(u.d) - MaxCut)..(Len(u.d) - 1)}

\* a file of MaxFile bytes written by another program
File == ArrayBuffer([k \in 1..MaxFile |-> k])

\* the data at hand: the file, and what the last serialize returned
Inputs == {File} \cup (IF out.err = "" THEN DataFrom(out.value) ELSE {})

----------------------------------------------------------------------------
(* The calls *)

Members == {schema[i] : i \in DOMAIN schema}

\* the caller assigns a property of the instance, before its first serialize
Assign ==
    /\ call.op \in {"new", "assign"}
    /\ \E m \in Members : \E v \in ValuesFor(m[2]) :
          /\ Get(this, m[1]) = Undefined
          /\ this' = Put(this, m[1], v)
    /\ call' = [op |-> "assign"]
    /\ UNCHANGED <<schema, littleEndian, out, reused>>

\* sizeof(Test), sizeof(instance) and sizeof(def) of every member
CallSizeof ==
    /\ call' = [op |-> "sizeof",
                ofClass |-> sizeof(Class("Test")),
                ofInstance |-> sizeof(Obj("Test", this)),
                ofDef |-> [i \in DOMAIN schema |-> sizeof(schema[i][2])]]
    /\ UNCHANGED <<schema, littleEndian, this, out, reused>>

\* instance.serialize(), of an instance not yet decoded into
CallSerialize ==
    /\ reused = 0
    /\ out' = serialize(Obj("Test", this))
    /\ call' = [op |-> "serialize", result |-> out']
    /\ UNCHANGED <<schema, littleEndian, this, reused>>

\* Test.Deserialize(data): a new instance is populated and returned
CallDeserialize ==
    /\ \E data \in Inputs :
          call' = [op |-> "Deserialize", data |-> data, passed |-> FALSE, before |-> NoProps,
                   result |-> Deserialize(Class("Test"), data, NoProps)]
    /\ UNCHANGED <<schema, littleEndian, this, out, reused>>

\* instance.deserialize(data): Test.Deserialize(data, instance); the
\* instance keeps whatever the call assigned, also when it throws; at most
\* `limit` such calls are followed on one instance
DeserializeInto(limit) ==
    /\ reused < limit
    /\ \E data \in Inputs :
          LET r == Deserialize(Class("Test"), data, this)
          IN /\ call' = [op |-> "Deserialize", data |-> data, passed |-> TRUE, before |-> this,
                         result |-> r]
             /\ this' = IF r.err = "" THEN r.value ELSE r.partial
    /\ reused' = reused + 1
    /\ UNCHANGED <<schema, littleEndian, out>>

CallDeserializeInto == DeserializeInto(MaxReuse)

Next == Assign \/ CallSizeof \/ CallSerialize \/ CallDeserialize \/ CallDeserializeInto

InitOver(schemas) ==
    /\ schema \in schemas
    /\ littleEndian \in BOOLEAN
    /\ this = NoProps
    /\ out = [err |-> "not called"]
    /\ reused = 0
    /\ call = [op |-> "new"]

CodecDefs ==
    {Def(Str("Uint8"), NoLength), Def(Str("Int16"), NoLength), Def(Str("BigUint64"), NoLength),
     Def(Str("Int16"), MaxLength), Def(Str("Float32"), MaxLength), Def(Str("string"), MaxText),
     Def(Str("Uint8"), 0), Def(Class("Inner"), NoLength)}

Init == InitOver(SchemasOver(CodecDefs))

Spec == Init /\ [][Next]_vars

\* text classes: a text member of every length up to MaxText, alone, after
\* a one-byte member, or before one; declared with serialMember alone, so
\* with the default options
TextSchemas ==
    UNION {{ << <<"a", Def(Str("string"), n)>> >>,
             << <<"a", Def(Str("Uint8"), NoLength)>>, <<"b", Def(Str("string"), n)>> >>,
             << <<"a", Def(Str("string"), n)>>, <<"b", Def(Str("Uint8"), NoLength)>> >> }
           : n \in 1..MaxText}

InitText == InitOver(TextSchemas) /\ littleEndian = TRUE

SpecText == InitText /\ [][Next]_vars

\* an instance decoded into more than once, whose repeated members the
\* caller may have given more elements than the declared length
MaxDecodes == 2
MaxExtra == 1

\* arrays of more elements than the member declares
LongerValuesFor(def) ==
    IF def.length # NoLength /\ isSerialPrimitive(def.type)
    THEN {Array([k \in 1..(def.length + x) |-> s]) : s \in SampleNumbers(def.type), x \in 1..MaxExtra}
    ELSE {}

\* the caller assigns a repeated member an array longer than declared
AssignLonger ==
    /\ call.op \in {"new", "assign"}
    /\ \E m \in Members : \E v \in LongerValuesFor(m[2]) :
          /\ Get(this, m[1]) = Undefined
          /\ this' = Put(this, m[1], v)
    /\ call' = [op |-> "assign"]
    /\ UNCHANGED <<schema, littleEndian, out, reused>>

CallDeserializeAgain == DeserializeInto(MaxDecodes)

NextReuse ==
    Assign \/ AssignLonger \/ CallSizeof \/ CallSerialize \/ CallDeserialize \/ CallDeserializeAgain

\* classes with one repeated numeric member, alone or after a one-byte member
ReuseSchemas ==
    UNION {{ << <<"a", Def(Str(type), MaxLength)>> >>,
             << <<"a", Def(Str("Uint8"), NoLength)>>, <<"b", Def(Str(type), MaxLength)>> >> }
           : type \in {"Int16", "Float32"}}

InitReuse == InitOver(ReuseSchemas)

SpecReuse == InitReuse /\ [][NextReuse]_vars

----------------------------------------------------------------------------
(* The layout the specification describes, for stating the claims *)

RECURSIVE LayoutSize(_), LayoutSum(_, _)

\* elementWidth(type) * (length ?? 1), the size of a nested class being the
\* sum over its own members
LayoutSize(def) ==
    (IF isSerialPrimitive(def.type) THEN primitiveSize(def.type)
     ELSE IF def.type = Str("string") THEN 1
     ELSE LayoutSum(statics[def.type.name].serial, Len(statics[def.type.name].serial)))
      * (IF def.length = NoLength THEN 1 ELSE def.length)

\* the sizes of the first n members of a class, added up
LayoutSum(serialMap, n) ==
    IF n = 0 THEN 0 ELSE LayoutSum(serialMap, n - 1) + LayoutSize(serialMap[n][2])

\* the offset of member i of Test: the sizes of the members before it
OffsetOf(i) == LayoutSum(schema, i - 1)

KeyOf(i) == schema[i][1]
DefOf(i) == schema[i][2]
IsText(def) == def.type = Str("string") /\ def.length # NoLength /\ def.length >= 1

\* the bytes Deserialize was handed, and the bytes of the ArrayBuffer behind them
BytesOf(data) == data.d
BufferOf(data) == IF "buffer" \in DOMAIN data THEN data.buffer ELSE data.d

\* the n bytes of member i in the buffer Deserialize read
SlotOf(i, bytes) == Slice(bytes, OffsetOf(i), OffsetOf(i) + LayoutSize(DefOf(i)))

LastNonZero(slot) == CHOOSE k \in 1..Len(slot) : slot[k] # 0 /\ \A j \in (k + 1)..Len(slot) : slot[j] = 0

Serialized == call.op = "serialize" /\ call.result.err = ""
Deserialized == call.op = "Deserialize" /\ call.result.err = ""
\* Deserialize was handed what serialize returned for `this`, into a new instance
RoundTrip ==
    /\ call.op = "Deserialize"
    /\ ~call.passed
    /\ reused = 0
    /\ out.err = ""
    /\ call.data \in {out.value, ArrayBuffer(out.value.d)}

\* a string of 1..n characters with codes in 1..255
PlainText(v, n) ==
    /\ v.t = "string"
    /\ Len(v.d) \in 1..n
    /\ \A k \in 1..Len(v.d) : v.d[k] \in 1..255

----------------------------------------------------------------------------
(* Claims *)

\* C2: for a text member of length n and a string s of 1..n characters with
\* codes in 1..255, serialize writes the codes of s in the first |s| bytes of
\* the slot and zero in the rest, and Deserialize of what serialize returned
\* gives back exactly s; and whenever the slot Deserialize reads holds a
\* non-zero byte, the decoded string is the slot's bytes up to and including
\* the last non-zero byte (trailing zeros dropped, embedded zeros kept).
C2_TextRoundTrip ==
    \A i \in DOMAIN schema :
        LET n == DefOf(i).length
            s == Get(this, KeyOf(i))
            slot == SlotOf(i, BufferOf(call.data))
        IN IsText(DefOf(i)) =>
             /\ (Serialized /\ PlainText(s, n)) =>
                    SlotOf(i, call.result.value.d) = s.d \o Zeros(n - Len(s.d))
             /\ (RoundTrip /\ PlainText(s, n)) =>
                    /\ call.result.err = ""
                    /\ Get(call.result.value, KeyOf(i)) = s
             /\ (Deserialized /\ Len(slot) = n /\ slot # Zeros(n)) =>
                    Get(call.result.value, KeyOf(i)) = String(SubSeq(slot, 1, LastNonZero(slot)))

\* a slot with a zero byte before its last non-zero byte was decoded
C2_WitnessEmbedded ==
    \E i \in DOMAIN schema :
        /\ IsText(DefOf(i))
        /\ Deserialized
        /\ LET slot == SlotOf(i, BufferOf(call.data))
           IN /\ Len(slot) = DefOf(i).length
              /\ \E j \in 1..Len(slot) : \E k \in (j + 1)..Len(slot) : slot[j] = 0 /\ slot[k] # 0
              /\ Len(Get(call.result.value, KeyOf(i)).d) = LastNonZero(slot)

\* C2 witness: a string shorter than its slot, in a slot that is not the
\* first of the buffer, came back from a round trip
C2_Witness ==
    \E i \in DOMAIN schema :
        /\ IsText(DefOf(i))
        /\ RoundTrip
        /\ PlainText(Get(this, KeyOf(i)), DefOf(i).length - 1)
        /\ OffsetOf(i) > 0
        /\ Get(call.result.value, KeyOf(i)) = Get(this, KeyOf(i))

\* C3 as claimed: when the n bytes of a text member's slot are all zero,
\* Deserialize decodes a string of exactly n characters of code 0.
C3_AllZeroSlotFullLength ==
    \A i \in DOMAIN schema :
        LET n == DefOf(i).length
            slot == SlotOf(i, BufferOf(call.data))
        IN (IsText(DefOf(i)) /\ Deserialized /\ slot = Zeros(n)) =>
               Get(call.result.value, KeyOf(i)) = String(Zeros(n))

IsInteger(type) == isSerialPrimitive(type) /\ ~isFloat(type)
IsNumeric(def) == isSerialPrimitive(def.type) /\ (def.length = NoLength \/ def.length >= 1)
IsArray(v) == v.t = "object" /\ v.name = "Array"

\* the value matches the member's declared kind: a number or bigint for a
\* scalar, an array of exactly `length` of them for a repeated member
Conforms(def, v) ==
    IF def.length = NoLength
    THEN v \in SampleNumbers(def.type)
    ELSE IsArray(v) /\ Len(v.d) = def.length /\ \A k \in 1..Len(v.d) : v.d[k] \in SampleNumbers(def.type)

\* C1 as claimed: for a class made of scalar and repeated members of the
\* integer kinds and an instance whose scalars are in the kind's domain and
\* whose arrays hold exactly `length` in-domain elements, serialize succeeds
\* and Deserialize of what it returned yields every scalar and every array
\* element equal to the original.
C1_NumericRoundTrip ==
    ((\A i \in DOMAIN schema :
          /\ IsNumeric(DefOf(i))
          /\ IsInteger(DefOf(i).type)
          /\ Conforms(DefOf(i), Get(this, KeyOf(i))))
       /\ reused = 0) =>
        /\ call.op = "serialize" => call.result.err = ""
        /\ RoundTrip =>
              /\ call.result.err = ""
              /\ \A i \in DOMAIN schema : Get(call.result.value, KeyOf(i)) = Get(this, KeyOf(i))

\* the orders in which n members can be declared
Orders(n) == {p \in [1..n -> 1..n] : \A j, k \in 1..n : p[j] = p[k] => j = k}

\* every member is of a valid kind: a primitive, text, or a decorated class
ValidKinds ==
    \A i \in DOMAIN schema :
        \/ isSerialPrimitive(DefOf(i).type)
        \/ DefOf(i).type = Str("string")
        \/ DefOf(i).type = Class("Inner")

\* C4 as claimed: sizeof(class) is the sum over its members of
\* elementWidth(type) * (length ?? 1), with sizeof(nested class) as the
\* width of a nested record; sizeof(instance) equals sizeof(class); and the
\* members in any other order give the same sizeof.
C4_SizeAdditivity ==
    (call.op = "sizeof" /\ ValidKinds) =>
        /\ call.ofClass = Returned(LayoutSum(schema, Len(schema)))
        /\ call.ofInstance = call.ofClass
        /\ \A p \in Orders(Len(schema)) :
              sizeofLoop([k \in 1..Len(schema) |-> schema[p[k]]], 1, 0) = call.ofClass

\* the bytes of an integral value in the order the class's option selects
BytesInOrder(v, width, little) ==
    IF little THEN [k \in 1..width |-> v.d[k]] ELSE [k \in 1..width |-> v.d[width + 1 - k]]

\* C5 as claimed: serialize writes every multi-byte numeric member in the
\* byte order the class's littleEndian option selects (least significant
\* byte first when it is true, the default; most significant first when it
\* is false), and Deserialize reads in that order.
C5_ConfiguredEndianness ==
    \A i \in DOMAIN schema :
        LET def == DefOf(i)
            v == Get(this, KeyOf(i))
            width == primitiveSize(def.type)
        IN (IsNumeric(def) /\ IsInteger(def.type) /\ def.length = NoLength /\ width > 1
              /\ Conforms(def, v) /\ reused = 0) =>
             /\ Serialized =>
                   SlotOf(i, call.result.value.d) = BytesInOrder(v, width, statics.Test.littleEndian)
             /\ (Deserialized /\ Len(SlotOf(i, BufferOf(call.data))) = width) =>
                       Get(call.result.value, KeyOf(i)) =
                           RawBytesToNumeric(def.type, SlotOf(i, BufferOf(call.data)),
                                             statics.Test.littleEndian)

HasZeroLength == \E i \in DOMAIN schema : DefOf(i).length = 0

\* C6 as claimed: for a class with a member of length 0, at any position,
\* sizeof, serialize and Deserialize each fail with an error, before any
\* byte was written and before any property of the instance was assigned.
C6_ZeroLengthRejected ==
    HasZeroLength =>
        /\ call.op = "sizeof" =>
              /\ call.ofClass.err # ""
              /\ call.ofInstance.err # ""
              /\ \A i \in DOMAIN schema : DefOf(i).length = 0 => call.ofDef[i].err # ""
        /\ call.op = "serialize" =>
              /\ call.result.err # ""
              /\ \A k \in 1..Len(call.result.partial) : call.result.partial[k] = 0
        /\ call.op = "Deserialize" =>
              /\ call.result.err # ""
              /\ call.passed => call.result.partial = call.before

\* C7 as claimed: whenever the buffer handed to Deserialize has fewer bytes
\* than sizeof(class), Deserialize raises an error, and an instance passed
\* in has none of its properties assigned by the failed call.
C7_ShortBufferAllOrNothing ==
    (/\ call.op = "Deserialize"
     /\ sizeof(Class("Test")).err = ""
     /\ ~HasZeroLength
     /\ Len(BytesOf(call.data)) < sizeof(Class("Test")).value) =>
        /\ call.result.err # ""
        /\ call.passed => call.result.partial = call.before

\* the length of the sequence a repeated member holds
HeldLength(v) == IF v.t = "string" \/ IsArray(v) THEN Len(v.d) ELSE 0

\* C8 as claimed: for a repeated member (any numeric kind, floats included,
\* or text) of length n whose sequence has k < n elements, serialize leaves
\* every byte of slots k..n-1 zero, and Deserialize of what it returned
\* recovers 0 in each of those numeric slots.
C8_ZeroFill ==
    \A i \in DOMAIN schema :
        LET def == DefOf(i)
            v == Get(this, KeyOf(i))
            k == HeldLength(v)
            width == LayoutSize(def) \div def.length
        IN ((IsText(def) \/ (IsNumeric(def) /\ def.length # NoLength)) /\ k < def.length /\ reused = 0) =>
             /\ Serialized =>
                   \A b \in (k * width + 1)..(def.length * width) :
                       SlotOf(i, call.result.value.d)[b] = 0
             /\ (RoundTrip /\ call.result.err = "" /\ IsNumeric(def)) =>
                   \A e \in (k + 1)..def.length :
                       Get(call.result.value, KeyOf(i)).d[e] \in {Number(0), BigInt(0)}

IsNested(def) == def.type = Class("Inner") /\ def.length = NoLength

\* C9 as claimed: for a class with a non-repeated member whose type is
\* another serializable class, serialize succeeds and places the nested
\* instance's own serialization at the member's offset, and Deserialize
\* decodes that byte range into a new instance of the nested class whose
\* numeric members equal the original's.
C9_NestedRecords ==
    \A i \in DOMAIN schema :
        (/\ IsNested(DefOf(i))
         /\ reused = 0
         /\ Get(this, KeyOf(i)) = InnerInstance
         /\ \A j \in DOMAIN schema : j # i => IsNumeric(DefOf(j)) /\ DefOf(j).length = NoLength
                                              /\ Conforms(DefOf(j), Get(this, KeyOf(j)))) =>
            /\ call.op = "serialize" =>
                  /\ call.result.err = ""
                  /\ SlotOf(i, call.result.value.d) = serialize(InnerInstance).value.d
            /\ (call.op = "Deserialize" /\ call.data = File /\ Len(File.d) >= LayoutSum(schema, Len(schema))) =>
                  /\ call.result.err = ""
                  /\ Get(call.result.value, KeyOf(i)) =
                        Obj("Inner", Deserialize(Class("Inner"), ArrayBuffer(SlotOf(i, File.d)), NoProps).value)

\* C10 as claimed: handed a byte view, Deserialize decodes the member at
\* layout offset o from byte o of the view, whatever the view's byteOffset:
\* the outcome is that of Deserialize on a new buffer holding a copy of the
\* view's bytes.
C10_ViewDecodedFromItsOwnBytes ==
    (call.op = "Deserialize" /\ "buffer" \in DOMAIN call.data) =>
        call.result = Deserialize(Class("Test"), ArrayBuffer(BytesOf(call.data)), call.before)

\* the element the code reads for slot e (from 1) of repeated member i
ReadAt(i, e, bytes) ==
    getValue(bytes, OffsetOf(i) + (e - 1) * primitiveSize(DefOf(i).type), DefOf(i).type, FALSE)

IsRepeatedNumeric(def) == isSerialPrimitive(def.type) /\ def.length # NoLength /\ def.length >= 1

\* the last call was instance.deserialize(data) and it returned
DecodedInto == call.op = "Deserialize" /\ call.passed /\ call.result.err = ""

\* C11 as claimed: after a successful deserialize on a reused instance,
\* every repeated numeric member of length n holds a sequence of exactly n
\* elements, each the value read from the most recent buffer at
\* offset + i * elementWidth; nothing set before the call (by the caller or
\* by an earlier decode) remains.
C11_DecodedArrayExact ==
    DecodedInto =>
        \A i \in DOMAIN schema :
            LET v == Get(this, KeyOf(i))
            IN IsRepeatedNumeric(DefOf(i)) =>
                 /\ IsArray(v)
                 /\ Len(v.d) = DefOf(i).length
                 /\ \A e \in 1..DefOf(i).length :
                        v.d[e] = ReadAt(i, e, BufferOf(call.data)).value

\* what does hold of the decoded array: its first n elements are the values
\* read from the most recent buffer, and it is as long as the longer of n
\* and the array held before the call
C11_FirstElementsReplaced ==
    DecodedInto =>
        \A i \in DOMAIN schema :
            LET v == Get(this, KeyOf(i))
                held == Get(call.before, KeyOf(i))
            IN IsRepeatedNumeric(DefOf(i)) =>
                 /\ IsArray(v)
                 /\ Len(v.d) = Max(DefOf(i).length, HeldLength(held))
                 /\ \A e \in 1..DefOf(i).length :
                        v.d[e] = ReadAt(i, e, BufferOf(call.data)).value
                 /\ \A e \in (DefOf(i).length + 1)..Len(v.d) : v.d[e] = held.d[e]

\* a second decode into one instance replaced the elements of the first
C11_SecondDecode ==
    /\ DecodedInto
    /\ reused = MaxDecodes
    /\ \E i \in DOMAIN schema :
          /\ IsRepeatedNumeric(DefOf(i))
          /\ IsArray(Get(call.before, KeyOf(i)))
          /\ Len(Get(call.before, KeyOf(i)).d) = DefOf(i).length
          /\ Get(call.before, KeyOf(i)) # Get(this, KeyOf(i))

====
